---- MODULE Spec2Model ----
(***************************************************************************)
(* Model of solar_analysis.py: process_data (file loading, concatenation,  *)
(* date parsing, inner join), create_visualization (date filter, centred   *)
(* rolling mean, budget line, GHI colours, trailing averages, yearly       *)
(* exceedance counts, summary text) and main (the order of the two output  *)
(* artifacts).                                                             *)
(*                                                                         *)
(* Number representation.  PR is held in tenths of a percent (73.9 -> 739),*)
(* GHI in thousandths (1.999 -> 1999), budget_line in millionths of a      *)
(* percent (73.9 -> 73900000).  A float that is a mean is the exact        *)
(* fraction num/den, and NaN is a separate marker.  A Timestamp is the     *)
(* number of days since 2020-01-01.                                        *)
(***************************************************************************)
EXTENDS Integers, Sequences, FiniteSets, TLC

VARIABLES
    pc,             \* position of main / of the function under study
    error,          \* the exception that ended the run, "none" otherwise
    pr_tree,        \* the PR directory tree: exists, number of */*.csv files, columns
    ghi_tree,       \* the GHI directory tree
    pr_data_list,   \* process_data: tables read so far from the PR files
    ghi_data_list,  \* process_data: tables read so far from the GHI files
    pr_combined,    \* process_data: concatenated PR rows
    ghi_combined,   \* process_data: concatenated GHI rows
    merged_data,    \* the table process_data returns (rows of Date, GHI, PR)
    csv_file,       \* processed_solar_data.csv: written flag and rows
    png_saved,      \* solar_performance_analysis.png has been saved
    df,             \* create_visualization: the table with its derived columns
    stats,          \* create_visualization: averages, yearly_stats, stats_text
    ghi_value,      \* banding study: the GHI value classified
    band            \* banding study: colour and legend range of ghi_value

vars == <<pc, error, pr_tree, ghi_tree, pr_data_list, ghi_data_list, pr_combined,
          ghi_combined, merged_data, csv_file, png_saved, df, stats, ghi_value, band>>

-----------------------------------------------------------------------------
(* Bounds of the model *)

MaxFiles == 2

MaxDfRows == 3

MaxSeriesLen == 44

MaxGHI == 7000

-----------------------------------------------------------------------------
(* Sequence helpers *)

RECURSIVE Flatten(_)
Flatten(tables) ==
    IF tables = <<>> THEN <<>> ELSE Head(tables) \o Flatten(Tail(tables))

RECURSIVE BoolIndex(_, _)
\* df[mask]: the rows whose mask entry is TRUE, in order
BoolIndex(rows, mask) ==
    IF rows = <<>> THEN <<>>
    ELSE (IF Head(mask) THEN <<Head(rows)>> ELSE <<>>) \o BoolIndex(Tail(rows), Tail(mask))

RECURSIVE SumPR(_)
SumPR(rows) == IF rows = <<>> THEN 0 ELSE Head(rows).PR + SumPR(Tail(rows))

-----------------------------------------------------------------------------
(* Calendar: pd.to_datetime, Timestamp.year, ISO output of to_csv *)

IsLeap(y) == (y % 4 = 0 /\ y % 100 # 0) \/ y % 400 = 0

DaysInYear(y) == IF IsLeap(y) THEN 366 ELSE 365

DaysInMonth(y, m) ==
    IF m = 2 THEN (IF IsLeap(y) THEN 29 ELSE 28)
    ELSE IF m \in {4, 6, 9, 11} THEN 30 ELSE 31

RECURSIVE DaysBeforeYear(_)
DaysBeforeYear(y) ==
    IF y <= 2020 THEN 0 ELSE DaysBeforeYear(y - 1) + DaysInYear(y - 1)

RECURSIVE DaysBeforeMonth(_, _)
DaysBeforeMonth(y, m) ==
    IF m <= 1 THEN 0 ELSE DaysBeforeMonth(y, m - 1) + DaysInMonth(y, m - 1)

RECURSIVE YearFrom(_, _)
YearFrom(day, y) ==
    IF day < DaysInYear(y) THEN y ELSE YearFrom(day - DaysInYear(y), y + 1)

\* Series.dt.year
YearOf(day) == YearFrom(day, 2020)

RECURSIVE MonthFrom(_, _, _)
MonthFrom(y, rest, m) ==
    IF rest < DaysInMonth(y, m) THEN m ELSE MonthFrom(y, rest - DaysInMonth(y, m), m + 1)

\* a date string as its format and its fields; "bad" is text that is no date
DateString(fmt, y, m, d) == [fmt |-> fmt, y |-> y, m |-> m, d |-> d]

Parseable(s) ==
    /\ s.fmt \in {"%Y-%m-%d", "%Y/%m/%d"}
    /\ s.m \in 1..12
    /\ s.d \in 1..DaysInMonth(s.y, s.m)

\* pd.to_datetime of one string that parses
to_datetime(s) == DaysBeforeYear(s.y) + DaysBeforeMonth(s.y, s.m) + (s.d - 1)

\* the Date column as to_csv writes it
IsoDate(day) ==
    LET y == YearOf(day)
        rest == day - DaysBeforeYear(y)
        m == MonthFrom(y, rest, 1)
    IN DateString("%Y-%m-%d", y, m, rest - DaysBeforeMonth(y, m) + 1)

-----------------------------------------------------------------------------
(* process_data: what the directory trees can hold *)

NotADate == DateString("bad", 0, 0, 0)

\* column sets a tree's CSV files can have (all files of one tree share them)
PRSchemas == {{"Date", "PR"}, {"PR"}, {"Date"}}

GHISchemas == {{"Date", "GHI"}, {"GHI"}, {"Date"}}

PRRows ==
    {[Date |-> DateString("%Y-%m-%d", 2020, 1, 2), PR |-> 600],
     [Date |-> DateString("%Y-%m-%d", 2020, 1, 2), PR |-> 739],
     [Date |-> DateString("%Y-%m-%d", 2021, 2, 4), PR |-> 600],
     [Date |-> NotADate, PR |-> 600]}

GHIRows ==
    {[Date |-> DateString("%Y-%m-%d", 2020, 1, 2), GHI |-> 1999],
     [Date |-> DateString("%Y/%m/%d", 2020, 1, 2), GHI |-> 6000],
     [Date |-> DateString("%Y-%m-%d", 2021, 2, 4), GHI |-> 4000],
     [Date |-> NotADate, GHI |-> 1999]}

\* the table pd.read_csv returns for one file: header only, or one data row
PRFileBodies == {<<>>} \cup {<<r>> : r \in PRRows}

GHIFileBodies == {<<>>} \cup {<<r>> : r \in GHIRows}

Trees(schemas) ==
    {[exists |-> TRUE, nfiles |-> n, cols |-> c] : n \in 0..MaxFiles, c \in schemas}
    \cup {[exists |-> FALSE, nfiles |-> 0, cols |-> {}]}

\* len(glob.glob(os.path.join(path, "*", "*.csv"))): no match under a missing directory
Glob(tree) == IF tree.exists THEN tree.nfiles ELSE 0

-----------------------------------------------------------------------------
(* process_data: date conversion and the inner join *)

AllParseable(rows) == \A i \in 1..Len(rows) : Parseable(rows[i].Date)

\* table['Date'] = pd.to_datetime(table['Date'])
ConvertDates(rows) ==
    [i \in 1..Len(rows) |-> [rows[i] EXCEPT !.Date = to_datetime(rows[i].Date)]]

RECURSIVE MatchRows(_, _)
\* the joined rows of one left row, in the order of the right table
MatchRows(l, right) ==
    IF right = <<>> THEN <<>>
    ELSE (IF Head(right).Date = l.Date
          THEN <<[Date |-> l.Date, GHI |-> Head(right).GHI, PR |-> l.PR]>>
          ELSE <<>>) \o MatchRows(l, Tail(right))

RECURSIVE JoinLeftOrder(_, _)
\* inner join that keeps the order of the left rows
JoinLeftOrder(left, right) ==
    IF left = <<>> THEN <<>>
    ELSE MatchRows(Head(left), right) \o JoinLeftOrder(Tail(left), right)

RECURSIVE JoinKeyOrder(_, _)
\* inner join that emits the matches key by key, keys in order of first appearance
JoinKeyOrder(left, right) ==
    IF left = <<>> THEN <<>>
    ELSE LET k == Head(left).Date
             same == [i \in 1..Len(left) |-> left[i].Date = k]
             other == [i \in 1..Len(left) |-> left[i].Date # k]
         IN JoinLeftOrder(BoolIndex(left, same), right)
            \o JoinKeyOrder(BoolIndex(left, other), right)

RECURSIVE LeftRows(_, _)
LeftRows(left, right) ==
    IF left = <<>> THEN <<>>
    ELSE (IF MatchRows(Head(left), right) = <<>>
          THEN <<[Date |-> Head(left).Date, GHI |-> -1, PR |-> Head(left).PR]>>
          ELSE MatchRows(Head(left), right)) \o LeftRows(Tail(left), right)

\* the join with how='left': a PR row without a GHI row is kept, its GHI missing
MergeHowLeft(pr, ghi, order) == LeftRows(pr, ghi)

RECURSIVE FirstMatches(_, _)
FirstMatches(left, right) ==
    IF left = <<>> THEN <<>>
    ELSE (IF MatchRows(Head(left), right) = <<>> THEN <<>>
          ELSE <<Head(MatchRows(Head(left), right))>>) \o FirstMatches(Tail(left), right)

\* a join by lookup: each PR row takes only the first GHI row of its date
MergeFirstMatch(pr, ghi, order) == FirstMatches(pr, ghi)

\* pd.merge(pr, ghi, on='Date', how='inner')[['Date', 'GHI', 'PR']]; the order of the
\* output rows depends on the pandas release, so both orders are outcomes
Merge(pr, ghi, order) ==
    IF order = "left" THEN JoinLeftOrder(pr, ghi) ELSE JoinKeyOrder(pr, ghi)

\* DataFrame.to_csv(index=False): one line per row, Date in ISO form
ToCsv(rows) ==
    [i \in 1..Len(rows) |->
        [Date |-> IsoDate(rows[i].Date), GHI |-> rows[i].GHI, PR |-> rows[i].PR]]

-----------------------------------------------------------------------------
(* State outside process_data before create_visualization has run *)

NoCsv == [written |-> FALSE, rows |-> <<>>]

NaN == [nan |-> TRUE, num |-> 0, den |-> 1]

NoStats ==
    [avg_7_day |-> NaN, avg_30_day |-> NaN, avg_60_day |-> NaN,
     yearly_stats |-> <<>>, stats_text |-> [avgs |-> <<>>, items |-> <<>>]]

NoBand == [color |-> "", range |-> ""]

Abort(exc) ==
    /\ pc' = "aborted"
    /\ error' = exc

-----------------------------------------------------------------------------
(* process_data, lines 22-54, as main calls it *)

Init ==
    /\ pc = "read_pr"
    /\ error = "none"
    /\ pr_tree \in Trees(PRSchemas)
    /\ ghi_tree \in Trees(GHISchemas)
    /\ pr_data_list = <<>>
    /\ ghi_data_list = <<>>
    /\ pr_combined = <<>>
    /\ ghi_combined = <<>>
    /\ merged_data = <<>>
    /\ csv_file = NoCsv
    /\ png_saved = FALSE
    /\ df = <<>>
    /\ stats = NoStats
    /\ ghi_value = 0
    /\ band = NoBand

\* lines 27-29: one iteration of the loop over the PR files
ReadPRFile ==
    /\ pc = "read_pr"
    /\ Len(pr_data_list) < Glob(pr_tree)
    /\ \E body \in PRFileBodies : pr_data_list' = Append(pr_data_list, body)
    /\ UNCHANGED <<pc, error, pr_tree, ghi_tree, ghi_data_list, pr_combined, ghi_combined,
                   merged_data, csv_file, png_saved, df, stats, ghi_value, band>>

\* line 28: pd.read_csv raises on a file that is not tabular text
ReadPRFileError ==
    /\ pc = "read_pr"
    /\ Len(pr_data_list) < Glob(pr_tree)
    /\ Abort("ParserError")
    /\ UNCHANGED <<pr_tree, ghi_tree, pr_data_list, ghi_data_list, pr_combined,
                   ghi_combined, merged_data, csv_file, png_saved, df, stats,
                   ghi_value, band>>

\* line 31: pd.concat raises ValueError on an empty list of tables
ConcatPR ==
    /\ pc = "read_pr"
    /\ Len(pr_data_list) = Glob(pr_tree)
    /\ IF pr_data_list = <<>>
       THEN /\ Abort("ValueError: No objects to concatenate")
            /\ UNCHANGED <<pr_combined, pr_data_list>>
       ELSE /\ pr_combined' = Flatten(pr_data_list)
            /\ pr_data_list' = <<>>
            /\ pc' = "read_ghi"
            /\ UNCHANGED error
    /\ UNCHANGED <<pr_tree, ghi_tree, ghi_data_list, ghi_combined, merged_data,
                   csv_file, png_saved, df, stats, ghi_value, band>>

\* lines 39-41: one iteration of the loop over the GHI files
ReadGHIFile ==
    /\ pc = "read_ghi"
    /\ Len(ghi_data_list) < Glob(ghi_tree)
    /\ \E body \in GHIFileBodies : ghi_data_list' = Append(ghi_data_list, body)
    /\ UNCHANGED <<pc, error, pr_tree, ghi_tree, pr_data_list, pr_combined, ghi_combined,
                   merged_data, csv_file, png_saved, df, stats, ghi_value, band>>

\* the read wrapped in try/except: the bad file is noted and skipped
ReadGHIFileErrorSwallowed ==
    /\ pc = "read_ghi"
    /\ Len(ghi_data_list) < Glob(ghi_tree)
    /\ error' = "ParserError"
    /\ ghi_data_list' = Append(ghi_data_list, <<>>)
    /\ UNCHANGED <<pc, pr_tree, ghi_tree, pr_data_list, pr_combined, ghi_combined,
                   merged_data, csv_file, png_saved, df, stats, ghi_value, band>>

\* line 40
ReadGHIFileError ==
    /\ pc = "read_ghi"
    /\ Len(ghi_data_list) < Glob(ghi_tree)
    /\ Abort("ParserError")
    /\ UNCHANGED <<pr_tree, ghi_tree, pr_data_list, ghi_data_list, pr_combined,
                   ghi_combined, merged_data, csv_file, png_saved, df, stats,
                   ghi_value, band>>

\* line 43
ConcatGHI ==
    /\ pc = "read_ghi"
    /\ Len(ghi_data_list) = Glob(ghi_tree)
    /\ IF ghi_data_list = <<>>
       THEN /\ Abort("ValueError: No objects to concatenate")
            /\ UNCHANGED <<ghi_combined, ghi_data_list>>
       ELSE /\ ghi_combined' = Flatten(ghi_data_list)
            /\ ghi_data_list' = <<>>
            /\ pc' = "merge"
            /\ UNCHANGED error
    /\ UNCHANGED <<pr_tree, ghi_tree, pr_data_list, pr_combined, merged_data,
                   csv_file, png_saved, df, stats, ghi_value, band>>

\* lines 47-54: convert both Date columns, join, project, return
MergeData ==
    /\ pc = "merge"
    /\ IF "Date" \notin pr_tree.cols \/ "Date" \notin ghi_tree.cols
       THEN /\ Abort("KeyError: 'Date'")
            /\ UNCHANGED <<pr_combined, ghi_combined, merged_data>>
       ELSE IF ~AllParseable(pr_combined)
       THEN /\ Abort("ValueError: unknown datetime string format")
            /\ UNCHANGED <<pr_combined, ghi_combined, merged_data>>
       ELSE IF ~AllParseable(ghi_combined)
       THEN /\ Abort("ValueError: unknown datetime string format")
            /\ pr_combined' = ConvertDates(pr_combined)
            /\ UNCHANGED <<ghi_combined, merged_data>>
       ELSE /\ pr_combined' = ConvertDates(pr_combined)
            /\ ghi_combined' = ConvertDates(ghi_combined)
            /\ IF "PR" \notin pr_tree.cols \/ "GHI" \notin ghi_tree.cols
               THEN /\ Abort("KeyError: not in index")
                    /\ UNCHANGED merged_data
               ELSE /\ \E order \in {"left", "key"} :
                          merged_data' = Merge(pr_combined', ghi_combined', order)
                    /\ pc' = "save_csv"
                    /\ UNCHANGED error
    /\ UNCHANGED <<pr_tree, ghi_tree, pr_data_list, ghi_data_list, csv_file,
                   png_saved, df, stats, ghi_value, band>>

\* main, lines 186-187
SaveCSV ==
    /\ pc = "save_csv"
    /\ csv_file' = [written |-> TRUE, rows |-> ToCsv(merged_data)]
    /\ pc' = "viz"
    /\ UNCHANGED <<error, pr_tree, ghi_tree, pr_data_list, ghi_data_list, pr_combined,
                   ghi_combined, merged_data, png_saved, df, stats, ghi_value, band>>

-----------------------------------------------------------------------------
(* create_visualization: floats *)

Float(num, den) == [nan |-> FALSE, num |-> num, den |-> den]

\* Series.mean(): NaN for no rows
Mean(rows) == IF rows = <<>> THEN NaN ELSE Float(SumPR(rows), Len(rows))

\* the texts f"{x:.1f}" can give for a PR average x (held in tenths, so one decimal is
\* the nearest integer); on an exact tie the binary value of x decides, either way
Format1f(x) ==
    IF x.nan THEN {[text |-> "nan", tenths |-> 0]}
    ELSE LET q == x.num \div x.den
             r == x.num % x.den
         IN IF 2 * r < x.den THEN {[text |-> "number", tenths |-> q]}
            ELSE IF 2 * r > x.den THEN {[text |-> "number", tenths |-> q + 1]}
            ELSE {[text |-> "number", tenths |-> q], [text |-> "number", tenths |-> q + 1]}

-----------------------------------------------------------------------------
(* create_visualization: date filter, lines 68-74 *)

NoDate == [given |-> FALSE, text |-> NotADate]

GivenDate(y, m, d) == [given |-> TRUE, text |-> DateString("%Y-%m-%d", y, m, d)]

FilterDates(rows, start_date, end_date) ==
    LET from == IF start_date.given
                THEN BoolIndex(rows, [i \in 1..Len(rows) |->
                                        rows[i].Date >= to_datetime(start_date.text)])
                ELSE rows
    IN IF end_date.given
       THEN BoolIndex(from, [i \in 1..Len(from) |->
                               from[i].Date <= to_datetime(end_date.text)])
       ELSE from

-----------------------------------------------------------------------------
(* create_visualization: rolling mean, line 77 *)

window == 30

\* the window centred with window // 2 rows before i instead of after it
RollingMeanEarly(rows, i) ==
    LET last == i + (window \div 2)
        first == last - window + 1
    IN IF first >= 1 /\ last <= Len(rows)
       THEN Float(SumPR(SubSeq(rows, first, last)), window)
       ELSE NaN

\* Series.rolling(window, center=True).mean() at row i: the window ends
\* (window - 1) // 2 rows after i and needs all its rows to exist
RollingMean(rows, i) ==
    LET last == i + ((window - 1) \div 2)
        first == last - window + 1
    IN IF first >= 1 /\ last <= Len(rows)
       THEN Float(SumPR(SubSeq(rows, first, last)), window)
       ELSE NaN

-----------------------------------------------------------------------------
(* create_visualization: budget line, lines 80-85 *)

\* 73.9, in millionths of a percent
start_budget == 73900000

\* 0.008, in thousandths
annual_degradation == 8

\* 365.25 days: 1461 quarter days
QuarterDaysPerYear == 1461

\* 1.0 as a fixed-point factor with eight decimals
FixOne == 10000 * 10000

\* floor(a * b / FixOne) without leaving 32 bits
MulFix(a, b) ==
    LET a1 == a \div 10000
        a0 == a % 10000
        b1 == b \div 10000
        b0 == b % 10000
    IN a1 * b1 + ((a1 * b0 + a0 * b1 + ((a0 * b0) \div 10000)) \div 10000)

RECURSIVE PowFix(_, _)
\* q ** n for a whole n, by squaring
PowFix(q, n) ==
    IF n = 0 THEN FixOne
    ELSE IF n % 2 = 0 THEN LET h == PowFix(q, n \div 2) IN MulFix(h, h)
    ELSE MulFix(q, PowFix(q, n - 1))

\* 1 + annual_degradation: the sign slipped
DecayBaseGrowth == FixOne + annual_degradation * (FixOne \div 1000)

\* 1 - annual_degradation
DecayBase == FixOne - annual_degradation * (FixOne \div 1000)

RECURSIVE RootFix(_, _)
\* the largest q in lo..hi with q ** QuarterDaysPerYear <= DecayBase
RootFix(lo, hi) ==
    IF lo >= hi THEN lo
    ELSE LET mid == (lo + hi + 1) \div 2
         IN IF PowFix(mid, QuarterDaysPerYear) <= DecayBase
            THEN RootFix(mid, hi) ELSE RootFix(lo, mid - 1)

\* (1 - annual_degradation) ** (1 / QuarterDaysPerYear)
QuarterDayFactor == RootFix(DecayBase, FixOne)

\* df['days_from_start'] / 365.25, as an exact fraction
YearsFromStart(days) == Float(4 * days, QuarterDaysPerYear)

\* start_budget * ((1 - annual_degradation) ** years), years = num / 1461
BudgetLine(years) == MulFix(start_budget, PowFix(QuarterDayFactor, years.num))

RECURSIVE MinDate(_)
MinDate(rows) ==
    IF Len(rows) <= 1 THEN (IF rows = <<>> THEN 0 ELSE rows[1].Date)
    ELSE LET m == MinDate(Tail(rows))
         IN IF Head(rows).Date < m THEN Head(rows).Date ELSE m

RECURSIVE MaxDate(_)
MaxDate(rows) ==
    IF Len(rows) <= 1 THEN (IF rows = <<>> THEN 0 ELSE rows[1].Date)
    ELSE LET m == MaxDate(Tail(rows))
         IN IF Head(rows).Date > m THEN Head(rows).Date ELSE m

-----------------------------------------------------------------------------
(* create_visualization: GHI colours, lines 88-98 and 166-174 *)

\* the thresholds tested with <= instead of <
get_color_inclusive(ghi) ==
    IF ghi <= 2000 THEN "navy"
    ELSE IF ghi <= 4000 THEN "lightblue"
    ELSE IF ghi <= 6000 THEN "orange"
    ELSE "brown"

get_color(ghi) ==
    IF ghi < 2000 THEN "navy"
    ELSE IF ghi < 4000 THEN "lightblue"
    ELSE IF ghi < 6000 THEN "orange"
    ELSE "brown"

get_ghi_range(color) ==
    CASE color = "navy" -> "<2"
      [] color = "lightblue" -> "2-4"
      [] color = "orange" -> "4-6"
      [] color = "brown" -> ">6"
      [] OTHER -> ""

-----------------------------------------------------------------------------
(* create_visualization: statistics, lines 118-145 *)

\* the window test with >= instead of >
TrailingMeanInclusive(rows, n) ==
    LET latest_date == MaxDate(rows)
    IN Mean(BoolIndex(rows, [i \in 1..Len(rows) |-> rows[i].Date >= latest_date - n]))

\* df[df['Date'] > (latest_date - timedelta(days=n))]['PR'].mean()
TrailingMean(rows, n) ==
    LET latest_date == MaxDate(rows)
    IN Mean(BoolIndex(rows, [i \in 1..Len(rows) |-> rows[i].Date > latest_date - n]))

RECURSIVE Unique(_, _)
\* Series.unique(): the distinct values in order of first appearance
Unique(values, seen) ==
    IF values = <<>> THEN <<>>
    ELSE IF Head(values) \in seen THEN Unique(Tail(values), seen)
    ELSE <<Head(values)>> \o Unique(Tail(values), seen \cup {Head(values)})

\* the budget test with >= instead of >
AboveBudgetOrEqual(row) == row.PR * 100000 >= row.budget_line

\* PR (tenths) > budget_line (millionths)
AboveBudget(row) == row.PR * 100000 > row.budget_line

\* (year_data['PR'] > year_data['budget_line']).sum() for the rows of one year
CountAbove(rows, year) ==
    LET year_data == BoolIndex(rows, [i \in 1..Len(rows) |-> rows[i].year = year])
    IN Len(BoolIndex(year_data, [i \in 1..Len(year_data) |-> AboveBudget(year_data[i])]))

RECURSIVE Ascending(_)
Ascending(S) ==
    IF S = {} THEN <<>>
    ELSE LET m == CHOOSE x \in S : \A y \in S : x <= y
         IN <<m>> \o Ascending(S \ {m})

\* the loop run over sorted(df['year'].unique())
YearlyStatsSorted(rows) ==
    LET years == Ascending({rows[i].year : i \in 1..Len(rows)})
    IN [k \in 1..Len(years) |-> [year |-> years[k], count |-> CountAbove(rows, years[k])]]

\* the dict yearly_stats as its items in insertion order
YearlyStats(rows) ==
    LET years == Unique([i \in 1..Len(rows) |-> rows[i].year], {})
    IN [k \in 1..Len(years) |-> [year |-> years[k], count |-> CountAbove(rows, years[k])]]

\* the columns create_visualization adds to the filtered table
Derive(rows) ==
    LET start_date_data == MinDate(rows)
    IN [i \in 1..Len(rows) |->
          LET days == rows[i].Date - start_date_data
              years == YearsFromStart(days)
          IN [Date |-> rows[i].Date, GHI |-> rows[i].GHI, PR |-> rows[i].PR,
              PR_30MA |-> RollingMean(rows, i),
              days_from_start |-> days,
              years_from_start |-> years,
              budget_line |-> BudgetLine(years),
              color |-> get_color(rows[i].GHI),
              year |-> YearOf(rows[i].Date)]]

\* lines 56-164: the whole function on the table in merged_data
CreateVisualization(start_date, end_date) ==
    /\ pc = "viz"
    /\ LET out == Derive(FilterDates(merged_data, start_date, end_date))
           avg7 == TrailingMean(out, 7)
           avg30 == TrailingMean(out, 30)
           avg60 == TrailingMean(out, 60)
           yearly == YearlyStats(out)
       IN /\ df' = out
          /\ \E t7 \in Format1f(avg7), t30 \in Format1f(avg30), t60 \in Format1f(avg60) :
                stats' = [avg_7_day |-> avg7, avg_30_day |-> avg30, avg_60_day |-> avg60,
                          yearly_stats |-> yearly,
                          stats_text |-> [avgs |-> <<t7, t30, t60>>, items |-> yearly]]
          \* without a filter df is the caller's table, which gets the new columns
          /\ merged_data' = IF start_date.given \/ end_date.given THEN merged_data ELSE out
    /\ png_saved' = TRUE
    /\ pc' = "done"
    /\ UNCHANGED <<error, pr_tree, ghi_tree, pr_data_list, ghi_data_list, pr_combined,
                   ghi_combined, csv_file, ghi_value, band>>

\* main, line 191: no date bounds
MainVisualization == CreateVisualization(NoDate, NoDate)

Next ==
    \/ ReadPRFile
    \/ ReadPRFileError
    \/ ConcatPR
    \/ ReadGHIFile
    \/ ReadGHIFileError
    \/ ConcatGHI
    \/ MergeData
    \/ SaveCSV
    \/ MainVisualization

Spec == Init /\ [][Next]_vars

-----------------------------------------------------------------------------
(* create_visualization called on its own, with and without date bounds *)

\* merged rows for the statistics: dates 6/7, 29/30 and 59/60 days before a latest
\* date, and one date in the next calendar year
VizRows ==
    {[Date |-> d, GHI |-> 1999, PR |-> 600] : d \in {1, 31, 54, 400}}
    \cup {[Date |-> d, GHI |-> 6000, PR |-> 739] : d \in {0, 60, 61, 400}}

VizTables == UNION {[1..n -> VizRows] : n \in 0..MaxDfRows}

StartDates == {NoDate, GivenDate(2020, 2, 1)}

EndDates == {NoDate, GivenDate(2020, 1, 1), GivenDate(2020, 3, 1)}

Called(table) ==
    /\ pc = "viz"
    /\ error = "none"
    /\ pr_tree = [exists |-> FALSE, nfiles |-> 0, cols |-> {}]
    /\ ghi_tree = [exists |-> FALSE, nfiles |-> 0, cols |-> {}]
    /\ pr_data_list = <<>>
    /\ ghi_data_list = <<>>
    /\ pr_combined = <<>>
    /\ ghi_combined = <<>>
    /\ merged_data = table
    /\ csv_file = NoCsv
    /\ png_saved = FALSE
    /\ df = <<>>
    /\ stats = NoStats
    /\ ghi_value = 0
    /\ band = NoBand

InitViz == \E table \in VizTables : Called(table)

VisualizationCall ==
    \E start_date \in StartDates, end_date \in EndDates :
        CreateVisualization(start_date, end_date)

NextViz == VisualizationCall

SpecViz == InitViz /\ [][NextViz]_vars

-----------------------------------------------------------------------------
(* create_visualization on a daily series: one row per consecutive day *)

SeriesPR(shape, i) ==
    CASE shape = "const50" -> 500
      [] shape = "const73.9" -> 739
      [] shape = "ramp" -> 400 + 10 * i

DailySeries(first_day, n, shape) ==
    [i \in 1..n |-> [Date |-> first_day + i - 1, GHI |-> 4000, PR |-> SeriesPR(shape, i)]]

InitSeries ==
    \E first_day \in {0, 350}, n \in 0..MaxSeriesLen, shape \in {"const50", "const73.9", "ramp"} :
        Called(DailySeries(first_day, n, shape))

NextSeries == MainVisualization

SpecSeries == InitSeries /\ [][NextSeries]_vars

-----------------------------------------------------------------------------
(* get_color and get_ghi_range on one GHI value *)

InitBand ==
    /\ pc = "band"
    /\ error = "none"
    /\ pr_tree = [exists |-> FALSE, nfiles |-> 0, cols |-> {}]
    /\ ghi_tree = [exists |-> FALSE, nfiles |-> 0, cols |-> {}]
    /\ pr_data_list = <<>>
    /\ ghi_data_list = <<>>
    /\ pr_combined = <<>>
    /\ ghi_combined = <<>>
    /\ merged_data = <<>>
    /\ csv_file = NoCsv
    /\ png_saved = FALSE
    /\ df = <<>>
    /\ stats = NoStats
    /\ ghi_value \in 0..MaxGHI
    /\ band = NoBand

\* lines 98 and 109 for one value: its colour, then the legend range of that colour
Classify ==
    /\ pc = "band"
    /\ band' = [color |-> get_color(ghi_value), range |-> get_ghi_range(get_color(ghi_value))]
    /\ pc' = "done"
    /\ UNCHANGED <<error, pr_tree, ghi_tree, pr_data_list, ghi_data_list, pr_combined,
                   ghi_combined, merged_data, csv_file, png_saved, df, stats, ghi_value>>

NextBand == Classify

SpecBand == InitBand /\ [][NextBand]_vars

-----------------------------------------------------------------------------
(* Properties of process_data and main, checked under Spec *)

\* process_data has just returned its table to main
Returned == pc = "save_csv"

LoadErrors ==
    {"ParserError", "KeyError: 'Date'", "KeyError: not in index",
     "ValueError: unknown datetime string format"}

CountDate(rows, d) == Cardinality({i \in 1..Len(rows) : rows[i].Date = d})

DatesOf(rows) == {rows[i].Date : i \in 1..Len(rows)}

UniqueDates(rows) == \A d \in DatesOf(rows) : CountDate(rows, d) = 1

Smaller(a, b) == IF a <= b THEN a ELSE b

ShareADate == DatesOf(pr_combined) \cap DatesOf(ghi_combined) # {}

\* C1 as stated: for non-empty PR and GHI row sets that share a date, duplicates
\* allowed, the returned table has at most min(|PR|, |GHI|) rows.
C1_MergedAtMostMin ==
    (Returned /\ pr_combined # <<>> /\ ghi_combined # <<>> /\ ShareADate)
        => Len(merged_data) <= Smaller(Len(pr_combined), Len(ghi_combined))

\* C1 amended: for non-empty PR and GHI row sets that share a date and in which no
\* date occurs twice within either set, the returned table has at most
\* min(|PR|, |GHI|) rows.
C1_MergedAtMostMinUniqueDates ==
    (Returned /\ pr_combined # <<>> /\ ghi_combined # <<>> /\ ShareADate
        /\ UniqueDates(pr_combined) /\ UniqueDates(ghi_combined))
        => Len(merged_data) <= Smaller(Len(pr_combined), Len(ghi_combined))

C1_Witness ==
    /\ Returned
    /\ UniqueDates(pr_combined) /\ UniqueDates(ghi_combined)
    /\ Len(pr_combined) = 2 /\ Len(ghi_combined) = 1
    /\ Len(merged_data) = 1

\* C2: the merge is an inner join on the converted date: for every date d the
\* returned table has (PR rows dated d) x (GHI rows dated d) rows dated d, each merged
\* row pairs a PR value and a GHI value of its date, so a date of one dataset only
\* gives no row and a date repeated within a dataset multiplies.
C2_InnerJoinCounts ==
    Returned =>
        /\ \A d \in DatesOf(pr_combined) \cup DatesOf(ghi_combined) \cup DatesOf(merged_data) :
              CountDate(merged_data, d) = CountDate(pr_combined, d) * CountDate(ghi_combined, d)
        /\ \A k \in 1..Len(merged_data) :
              /\ \E i \in 1..Len(pr_combined) :
                    /\ pr_combined[i].Date = merged_data[k].Date
                    /\ pr_combined[i].PR = merged_data[k].PR
              /\ \E j \in 1..Len(ghi_combined) :
                    /\ ghi_combined[j].Date = merged_data[k].Date
                    /\ ghi_combined[j].GHI = merged_data[k].GHI

C2_Witness ==
    /\ Returned
    /\ \E d \in DatesOf(pr_combined) :
          /\ CountDate(pr_combined, d) = 2
          /\ CountDate(ghi_combined, d) = 2
          /\ CountDate(merged_data, d) = 4
    /\ \E j \in 1..Len(ghi_combined) : ghi_combined[j].GHI = 6000

ProcessDataEnded == pc \in {"aborted", "save_csv"}

EmptyInput ==
    \/ Glob(pr_tree) = 0
    \/ Glob(ghi_tree) = 0
    \/ (Returned /\ (pr_combined = <<>> \/ ghi_combined = <<>>))

\* C3: when the PR rows or the GHI rows are empty, also when a tree has no CSV file
\* at all, process_data returns an empty table and raises nothing.
C3_EmptyInputReturnsEmpty ==
    (ProcessDataEnded /\ EmptyInput /\ error \notin LoadErrors)
        => (Returned /\ error = "none" /\ merged_data = <<>>)

\* C4: a load error ends the run with neither artifact written; the CSV is written
\* only after process_data has returned without error, and the chart only after
\* the CSV.
C4_NoOutputOnLoadError ==
    /\ error # "none" => (pc = "aborted" /\ ~csv_file.written /\ ~png_saved)
    /\ csv_file.written => (pc \in {"viz", "done"} /\ error = "none")
    /\ png_saved => (csv_file.written /\ pc = "done")
    /\ pc \in {"read_pr", "read_ghi", "merge", "save_csv"} => (~csv_file.written /\ ~png_saved)

C4_Witness ==
    /\ pc = "aborted"
    /\ error = "ParserError"
    /\ pr_combined # <<>>
    /\ Len(ghi_data_list) = 1
    /\ ~csv_file.written
    /\ ~png_saved

-----------------------------------------------------------------------------
(* Properties of create_visualization on a daily series, checked under SpecSeries *)

Finished == pc = "done"

ConstantPR(rows, v) == \A i \in 1..Len(rows) : rows[i].PR = v

NullRows(rows) == {i \in 1..Len(rows) : rows[i].PR_30MA.nan}

\* C5 as stated: for 40 rows of constant PR = 50 the rolling average is null for
\* exactly the first 14 and the last 14 rows, and every defined entry is 50.0.
C5_NullFirst14Last14 ==
    (Finished /\ Len(df) = 40 /\ ConstantPR(df, 500))
        => /\ NullRows(df) = (1..14) \cup (27..40)
           /\ \A i \in (1..40) \ NullRows(df) :
                 df[i].PR_30MA.num = 500 * df[i].PR_30MA.den

\* C5 amended: for 40 rows of constant PR = 50 the rolling average is null for
\* exactly the first 15 and the last 14 rows, and every defined entry is 50.0.
C5_NullFirst15Last14 ==
    (Finished /\ Len(df) = 40 /\ ConstantPR(df, 500))
        => /\ NullRows(df) = (1..15) \cup (27..40)
           /\ \A i \in (1..40) \ NullRows(df) :
                 df[i].PR_30MA.num = 500 * df[i].PR_30MA.den

C5_Witness ==
    /\ Finished
    /\ Len(df) = 40
    /\ ConstantPR(df, 500)
    /\ df[15].PR_30MA.nan
    /\ ~df[16].PR_30MA.nan
    /\ ~df[26].PR_30MA.nan
    /\ df[27].PR_30MA.nan

\* a < b for two fractions with positive denominators
FracLess(a, b) == a.num * b.den < b.num * a.den

\* C10: the budget line is strictly decreasing in years_from_start: of two rows the
\* one with the larger year offset has the smaller budget, and a row dated at the
\* earliest date has budget 73.9.
C10_BudgetStrictlyDecreasing ==
    Finished =>
        /\ \A i, j \in 1..Len(df) :
              FracLess(df[i].years_from_start, df[j].years_from_start)
                  => df[i].budget_line > df[j].budget_line
        /\ \A i \in 1..Len(df) :
              (\A j \in 1..Len(df) : df[i].Date <= df[j].Date)
                  => /\ df[i].years_from_start.num = 0
                     /\ df[i].budget_line = start_budget

C10_Witness ==
    /\ Finished
    /\ Len(df) >= 40
    /\ df[1].budget_line = start_budget
    /\ df[2].budget_line < df[1].budget_line
    /\ df[40].budget_line < df[39].budget_line
    /\ df[2].days_from_start = 1

-----------------------------------------------------------------------------
(* Properties of get_color and get_ghi_range, checked under SpecBand *)

Bands == {"<2", "2-4", "4-6", ">6"}

\* C6: the banding of a GHI value >= 0 is total and without overlap: the value gets
\* exactly one of the four bands, '<2' below 2, '2-4' from 2 up to 4, '4-6' from 4 up
\* to 6, '>6' from 6 on; so 1.999 is '<2', 2.0 is '2-4', 4.0 is '4-6', 6.0 is '>6'.
C6_BandPartition ==
    (pc = "done" /\ ghi_value >= 0) =>
        /\ band.range \in Bands
        /\ (band.range = "<2") <=> (ghi_value < 2000)
        /\ (band.range = "2-4") <=> (2000 <= ghi_value /\ ghi_value < 4000)
        /\ (band.range = "4-6") <=> (4000 <= ghi_value /\ ghi_value < 6000)
        /\ (band.range = ">6") <=> (6000 <= ghi_value)
        /\ ghi_value = 1999 => band.range = "<2"
        /\ ghi_value = 2000 => band.range = "2-4"
        /\ ghi_value = 4000 => band.range = "4-6"
        /\ ghi_value = 6000 => band.range = ">6"

C6_Witness ==
    /\ pc = "done"
    /\ ghi_value = 6000
    /\ band = [color |-> "brown", range |-> ">6"]

-----------------------------------------------------------------------------
(* Properties of the statistics of create_visualization, checked under SpecViz *)

RECURSIVE SumOfPR(_, _)
\* the sum of PR over the rows with index in S
SumOfPR(rows, S) ==
    IF S = {} THEN 0
    ELSE LET i == CHOOSE x \in S : TRUE IN rows[i].PR + SumOfPR(rows, S \ {i})

\* the rows dated within the last n days of the table: later than L - n, L the latest date
InRange(rows, n) ==
    {i \in 1..Len(rows) : \E k \in 1..Len(rows) :
        /\ \A j \in 1..Len(rows) : rows[j].Date <= rows[k].Date
        /\ rows[i].Date + n > rows[k].Date}

IsMeanOver(avg, rows, S) ==
    IF S = {} THEN avg.nan
    ELSE /\ ~avg.nan
         /\ avg.den = Cardinality(S)
         /\ avg.num = SumOfPR(rows, S)

\* C7: each trailing average (7, 30, 60 days) is the mean of PR over exactly the rows
\* dated later than L - n days, L the latest date of the filtered table, the rows
\* dated L included; with no row in range it is NaN, not zero, and the summary text
\* is built all the same, showing "nan".
C7_TrailingAverages ==
    Finished =>
        /\ IsMeanOver(stats.avg_7_day, df, InRange(df, 7))
        /\ IsMeanOver(stats.avg_30_day, df, InRange(df, 30))
        /\ IsMeanOver(stats.avg_60_day, df, InRange(df, 60))
        /\ \A i \in 1..Len(df) :
              (\A j \in 1..Len(df) : df[j].Date <= df[i].Date) => i \in InRange(df, 7)
        /\ Len(stats.stats_text.avgs) = 3
        /\ (stats.stats_text.avgs[1].text = "nan") <=> (InRange(df, 7) = {})
        /\ (stats.stats_text.avgs[2].text = "nan") <=> (InRange(df, 30) = {})
        /\ (stats.stats_text.avgs[3].text = "nan") <=> (InRange(df, 60) = {})

C7_Witness ==
    /\ Finished
    /\ merged_data # <<>>
    /\ df = <<>>
    /\ stats.avg_7_day.nan /\ stats.avg_30_day.nan /\ stats.avg_60_day.nan
    /\ stats.stats_text.avgs[1].text = "nan"

YearsOf(rows) == {YearOf(rows[i].Date) : i \in 1..Len(rows)}

Entries(year) == {k \in 1..Len(stats.yearly_stats) : stats.yearly_stats[k].year = year}

\* C8: yearly_stats has one entry for each calendar year that has a row, none for any
\* other year, and the entry is the number of that year's rows with PR strictly
\* above budget_line.
C8_YearlyExceedance ==
    Finished =>
        /\ \A k \in 1..Len(stats.yearly_stats) : stats.yearly_stats[k].year \in YearsOf(df)
        /\ \A y \in YearsOf(df) :
              /\ Cardinality(Entries(y)) = 1
              /\ \A k \in Entries(y) :
                    stats.yearly_stats[k].count =
                        Cardinality({i \in 1..Len(df) :
                            /\ YearOf(df[i].Date) = y
                            /\ df[i].PR * 100000 > df[i].budget_line})

C8_Witness ==
    /\ Finished
    /\ Len(df) = 3
    /\ stats.yearly_stats = <<[year |-> 2020, count |-> 1], [year |-> 2021, count |-> 1]>>
    /\ \E i \in 1..3 : df[i].PR * 100000 = df[i].budget_line

TextYears == [k \in 1..Len(stats.stats_text.items) |-> stats.stats_text.items[k].year]

FirstRowOf(year) ==
    CHOOSE i \in 1..Len(df) :
        /\ df[i].year = year
        /\ \A j \in 1..(i - 1) : df[j].year # year

====
